---- MODULE Spec2Model ----
(***************************************************************************)
(* Validador de transcripciones (src/main.py): the six rule validators,    *)
(* the question extractor, analizar_un_docx and the two batch endpoints    *)
(* /analyze and /analyze-zip.                                               *)
(*                                                                         *)
(* A Python str is a sequence of characters, each character a one-element  *)
(* string.  Characters outside ASCII are written by name ("eacute" is the  *)
(* character e-acute, "iquest" the inverted question mark), so that every  *)
(* character of the alphabet stays distinct under any file encoding.       *)
(* Optional[T] is a set with at most one element: None is {}.              *)
(***************************************************************************)
EXTENDS Integers, Sequences, FiniteSets, TLC

VARIABLES
    documentos,      \* request: the uploaded files, [filename, content]
    preguntas_excel, \* request: the uploaded reference file, [filename, content]
    x_token,         \* request: the X-Token header (Optional)
    API_TOKEN,       \* environment: the configured token (Optional)
    endpoint,        \* "analyze" or "analyze-zip"
    pc,              \* position in the handler
    docx_files,      \* local: the accepted documents
    preguntas_ref,   \* local: the reference questions
    resultados,      \* local: results collected so far (each analizar_un_docx result)
    zip_entries,     \* local: entries written to the archive so far
    lecturas,        \* the reads of uploaded bytes done so far, in order
    response         \* Optional: the HTTP response, once the handler has ended

vars == <<documentos, preguntas_excel, x_token, API_TOKEN, endpoint, pc,
          docx_files, preguntas_ref, resultados, zip_entries, lecturas, response>>

----------------------------------------------------------------------------
(* Bounds of the model *)

\* longest document, in paragraphs
MaxParas == 2
\* most uploaded files in one request
MaxFiles == 13

----------------------------------------------------------------------------
(* Characters and str methods *)

AZ_UPPER == {"A", "B", "C", "D", "E", "F", "G", "H", "I", "J", "K", "L", "M",
             "N", "O", "P", "Q", "R", "S", "T", "U", "V", "W", "X", "Y", "Z"}
AZ_LOWER == {"a", "b", "c", "d", "e", "f", "g", "h", "i", "j", "k", "l", "m",
             "n", "o", "p", "q", "r", "s", "t", "u", "v", "w", "x", "y", "z"}
DIGITS == {"0", "1", "2", "3", "4", "5", "6", "7", "8", "9"}
UPPERS == <<"A", "B", "C", "D", "E", "F", "G", "H", "I", "J", "K", "L", "M",
            "N", "O", "P", "Q", "R", "S", "T", "U", "V", "W", "X", "Y", "Z",
            "Aacute", "Eacute", "Oacute">>
LOWERS == <<"a", "b", "c", "d", "e", "f", "g", "h", "i", "j", "k", "l", "m",
            "n", "o", "p", "q", "r", "s", "t", "u", "v", "w", "x", "y", "z",
            "aacute", "eacute", "oacute">>

\* \w of a str pattern: letters (accented ones too), digits and the underscore
WORD_CHARS == AZ_UPPER \cup AZ_LOWER \cup DIGITS \cup {"_"}
              \cup {"Aacute", "Eacute", "Oacute", "aacute", "eacute", "oacute"}
\* what str.strip() removes and \s matches
WHITESPACE == {" ", "\t", "\n"}

the(S) == CHOOSE x \in S : TRUE
SetMin(S) == CHOOSE x \in S : \A y \in S : x <= y
SetMax(S) == CHOOSE x \in S : \A y \in S : y <= x

RECURSIVE Flatten(_)
Flatten(ss) == IF ss = <<>> THEN <<>> ELSE Head(ss) \o Flatten(Tail(ss))

lower_char(c) ==
    IF c \in AZ_LOWER THEN c
    ELSE IF \E i \in DOMAIN UPPERS : UPPERS[i] = c
    THEN LOWERS[CHOOSE i \in DOMAIN UPPERS : UPPERS[i] = c]
    ELSE c

\* str.lower()
lower(s) == [i \in DOMAIN s |-> lower_char(s[i])]

\* str.strip()
strip(s) ==
    LET keep == {i \in DOMAIN s : s[i] \notin WHITESPACE}
    IN  IF keep = {} THEN <<>> ELSE SubSeq(s, SetMin(keep), SetMax(keep))

\* str.startswith(p), str.endswith(p)
startswith(s, p) == Len(p) <= Len(s) /\ SubSeq(s, 1, Len(p)) = p
endswith(s, p) == Len(p) <= Len(s) /\ SubSeq(s, Len(s) - Len(p) + 1, Len(s)) = p

\* sub in s
contains(s, sub) ==
    \E i \in 0..(Len(s) - Len(sub)) : SubSeq(s, i + 1, i + Len(sub)) = sub

\* s.split(sep)[0], sep one character
split_first(s, sep) ==
    LET at == {i \in DOMAIN s : s[i] = sep}
    IN  IF at = {} THEN s ELSE SubSeq(s, 1, SetMin(at) - 1)

\* x in lista
in_list(x, lista) == \E i \in DOMAIN lista : lista[i] = x

----------------------------------------------------------------------------
(* Reglas de validacion *)

MAX_DOCX == 10

ETIQUETAS_VALIDAS == <<
    <<"E", "N", "T", "R", "E", "V", "I", "S", "T", "A", "D", "O", "R">>,
    <<"E", "N", "T", "R", "E", "V", "I", "S", "T", "A", "D", "O", "R", "A">>,
    <<"E", "N", "T", "R", "E", "V", "I", "S", "T", "A", "D", "O">>,
    <<"E", "N", "T", "R", "E", "V", "I", "S", "T", "A", "D", "A">> >>

\* Each pattern of the table has the shape \b BODY \b, BODY either a literal
\* followed or not by [a-z]*, or one character repeated {min,} times:
\*   src  the pattern as written, lit  the literal (or the repeated character),
\*   rep  0 for a literal, else the least number of repetitions,
\*   az   whether [a-z]* follows.
ETIQUETAS_INVALIDAS_PATRONES == <<
    [src |-> "\\bUsuario\\b", lit |-> <<"U", "s", "u", "a", "r", "i", "o">>, rep |-> 0, az |-> FALSE],
    [src |-> "\\bX{3,}\\b", lit |-> <<"X">>, rep |-> 3, az |-> FALSE],
    [src |-> "\\bXxxxxxx\\b", lit |-> <<"X", "x", "x", "x", "x", "x", "x">>, rep |-> 0, az |-> FALSE],
    [src |-> "\\bEntrevistador[a-z]*\\b", lit |-> <<"E", "n", "t", "r", "e", "v", "i", "s", "t", "a", "d", "o", "r">>, rep |-> 0, az |-> TRUE],
    [src |-> "\\bEntrevistado[a-z]*\\b", lit |-> <<"E", "n", "t", "r", "e", "v", "i", "s", "t", "a", "d", "o">>, rep |-> 0, az |-> TRUE],
    [src |-> "\\bentrevistador[a-z]*\\b", lit |-> <<"e", "n", "t", "r", "e", "v", "i", "s", "t", "a", "d", "o", "r">>, rep |-> 0, az |-> TRUE],
    [src |-> "\\bentrevistado[a-z]*\\b", lit |-> <<"e", "n", "t", "r", "e", "v", "i", "s", "t", "a", "d", "o">>, rep |-> 0, az |-> TRUE],
    [src |-> "\\bModerador[a-z]*\\b", lit |-> <<"M", "o", "d", "e", "r", "a", "d", "o", "r">>, rep |-> 0, az |-> TRUE],
    [src |-> "\\bmoderador[a-z]*\\b", lit |-> <<"m", "o", "d", "e", "r", "a", "d", "o", "r">>, rep |-> 0, az |-> TRUE],
    [src |-> "\\bSpeaker[a-z]*\\b", lit |-> <<"S", "p", "e", "a", "k", "e", "r">>, rep |-> 0, az |-> TRUE],
    [src |-> "\\bSPEAKER[a-z]*\\b", lit |-> <<"S", "P", "E", "A", "K", "E", "R">>, rep |-> 0, az |-> TRUE] >>

----------------------------------------------------------------------------
(* Regular expressions *)

\* one pattern character against one text character, under flags
char_eq(pc_, c, ignorecase) ==
    IF ignorecase THEN lower_char(pc_) = lower_char(c) ELSE pc_ = c

\* [a-z] against one text character, under flags
in_az(c, ignorecase) ==
    IF ignorecase THEN lower_char(c) \in AZ_LOWER ELSE c \in AZ_LOWER

is_word_at(s, i) == i \in DOMAIN s /\ s[i] \in WORD_CHARS

\* \b just before position p (1..Len(s)+1)
word_boundary(s, p) == is_word_at(s, p - 1) # is_word_at(s, p)

\* the lengths k such that the BODY of pat matches s[p .. p+k-1]
body_lengths(pat, s, p, ignorecase) ==
    IF pat.rep > 0
    THEN {k \in pat.rep..(Len(s) - p + 1) :
            \A j \in p..(p + k - 1) : char_eq(pat.lit[1], s[j], ignorecase)}
    ELSE LET n == Len(pat.lit)
         IN  IF p + n - 1 > Len(s)
                \/ \E j \in 1..n : ~char_eq(pat.lit[j], s[p + j - 1], ignorecase)
             THEN {}
             ELSE IF pat.az
                  THEN {k \in n..(Len(s) - p + 1) :
                          \A j \in (p + n)..(p + k - 1) : in_az(s[j], ignorecase)}
                  ELSE {n}

\* re.search(patron, texto, flags) is not None, for a pattern of the table
re_search(pat, s, ignorecase) ==
    \E p \in 1..Len(s) :
        /\ word_boundary(s, p)
        /\ \E k \in body_lengths(pat, s, p, ignorecase) : word_boundary(s, p + k)

\* re.match(r"^([A-Z]+):", texto): Optional group(1)
match_etiqueta(texto) ==
    LET ks == {k \in 1..(Len(texto) - 1) :
                 /\ \A j \in 1..k : texto[j] \in AZ_UPPER
                 /\ texto[k + 1] = ":"}
    IN  IF ks = {} THEN {} ELSE {SubSeq(texto, 1, SetMax(ks))}

\* re.match(r"^(ENTREVISTAD[OA]|ENTREVISTADOR[OA]):\s*$", texto) is not None
match_intervencion_vacia(texto) ==
    \E stem \in {<<"E", "N", "T", "R", "E", "V", "I", "S", "T", "A", "D">>,
                 <<"E", "N", "T", "R", "E", "V", "I", "S", "T", "A", "D", "O", "R">>} :
        LET n == Len(stem)
        IN  /\ Len(texto) >= n + 2
            /\ SubSeq(texto, 1, n) = stem
            /\ texto[n + 1] \in {"O", "A"}
            /\ texto[n + 2] = ":"
            \* \s*$: whitespace up to the end (a final newline is whitespace too)
            /\ \A j \in (n + 3)..Len(texto) : texto[j] \in WHITESPACE

\* the lengths k >= 1 such that [^?\n]+\? matches s[p .. p+k]
pregunta_lengths(s, p) ==
    {k \in 1..(Len(s) - p) :
        /\ \A j \in p..(p + k - 1) : s[j] \notin {"?", "\n"}
        /\ s[p + k] = "?"}

\* re.compile(r"[^?\n]+\?").findall(s), scanning from position p
RECURSIVE findall_pregunta(_, _)
findall_pregunta(s, p) ==
    IF p > Len(s) THEN <<>>
    ELSE IF pregunta_lengths(s, p) = {} THEN findall_pregunta(s, p + 1)
    ELSE LET k == SetMax(pregunta_lengths(s, p))
         IN  <<SubSeq(s, p, p + k)>> \o findall_pregunta(s, p + k + 1)

----------------------------------------------------------------------------
(* Documents.  A run is [text, bold, font_name, font_size]: bold is         *)
(* Optional[bool], font_name Optional[str], font_size Optional[Length],     *)
(* the Length counted in half-points (w:sz), so that Length.pt is half of   *)
(* it.  A paragraph is its runs; a document's bytes either parse into       *)
(* paragraphs or do not.                                                    *)

\* Paragraph.text: the runs' text, joined
para_text(para) == Flatten([j \in DOMAIN para |-> para[j].text])

\* doc_from_bytes: Optional paragraphs, {} when Document() raises
doc_from_bytes(docx_bytes) ==
    IF docx_bytes.ok THEN {docx_bytes.paragraphs} ELSE {}

\* str(n) for a natural number
RECURSIVE str_nat(_)
str_nat(n) ==
    LET d == <<"0", "1", "2", "3", "4", "5", "6", "7", "8", "9">>
    IN  IF n < 10 THEN <<d[n + 1]>> ELSE str_nat(n \div 10) \o <<d[(n % 10) + 1]>>

\* f"{tam}" for tam = Length.pt, a float: 22 half-points is "11.0", 25 is "12.5"
str_pt(half_points) ==
    str_nat(half_points \div 2) \o <<".">> \o (IF half_points % 2 = 0 THEN <<"0">> ELSE <<"5">>)

error(linea, tipo, descripcion) ==
    [linea |-> linea, tipo_error |-> tipo, descripcion |-> descripcion]

----------------------------------------------------------------------------
(* The validators.  Each is written per paragraph i (1-based: the code's    *)
(* i + 1) and joined over the paragraphs in order.                          *)

\* a faulty variant: only the first run decides whether the paragraph is bold
negrita_entrevistador_primera_run(i, para) ==
    LET texto == strip(para_text(para))
    IN  IF (startswith(texto, <<"E", "N", "T", "R", "E", "V", "I", "S", "T", "A", "D", "O", "R", ":">>)
            \/ startswith(texto, <<"E", "N", "T", "R", "E", "V", "I", "S", "T", "A", "D", "O", "R", "A", ":">>))
           /\ para # <<>> /\ strip(para[1].text) # <<>> /\ para[1].bold # {TRUE}
        THEN <<error(i, "Formato en negrita",
                     <<"Texto de ">> \o split_first(texto, ":")
                     \o <<" no está completamente en negrita.">>)>>
        ELSE <<>>

negrita_entrevistador_para(i, para) ==
    LET texto == strip(para_text(para))
    IN  IF startswith(texto, <<"E", "N", "T", "R", "E", "V", "I", "S", "T", "A", "D", "O", "R", ":">>)
           \/ startswith(texto, <<"E", "N", "T", "R", "E", "V", "I", "S", "T", "A", "D", "O", "R", "A", ":">>)
        THEN LET is_bold == ~\E j \in DOMAIN para :
                                strip(para[j].text) # <<>> /\ para[j].bold # {TRUE}
             IN  IF ~is_bold
                 THEN <<error(i, "Formato en negrita",
                              <<"Texto de ">> \o split_first(texto, ":")
                              \o <<" no está completamente en negrita.">>)>>
                 ELSE <<>>
        ELSE <<>>

validar_negrita_entrevistador(doc) ==
    Flatten([i \in DOMAIN doc |-> negrita_entrevistador_para(i, doc[i])])

etiquetas_para(i, para) ==
    LET texto == strip(para_text(para))
        match == match_etiqueta(texto)
    IN  IF match # {}
        THEN LET etiqueta == the(match)
             IN  IF ~in_list(etiqueta, ETIQUETAS_VALIDAS)
                 THEN <<error(i, "Etiqueta inválida",
                              <<"Etiqueta '">> \o etiqueta \o <<"' no es válida.">>)>>
                 ELSE IF etiqueta \in {<<"E", "N", "T", "R", "E", "V", "I", "S", "T", "A", "D", "O", "R">>,
                                       <<"E", "N", "T", "R", "E", "V", "I", "S", "T", "A", "D", "O", "R", "A">>}
                 THEN IF ~\E j \in DOMAIN para :
                            para[j].bold = {TRUE} /\ contains(para[j].text, etiqueta)
                      THEN <<error(i, "Encabezado sin negrita",
                                   <<"Etiqueta '">> \o etiqueta
                                   \o <<"' debería estar en negrita.">>)>>
                      ELSE <<>>
                 ELSE <<>>
        ELSE <<>>

validar_etiquetas_docx(doc) ==
    Flatten([i \in DOMAIN doc |-> etiquetas_para(i, doc[i])])

etiquetas_invalidas_para(i, para) ==
    LET texto == strip(para_text(para))
        hits == {n \in DOMAIN ETIQUETAS_INVALIDAS_PATRONES :
                    re_search(ETIQUETAS_INVALIDAS_PATRONES[n], texto, TRUE)}
    IN  IF hits = {} THEN <<>>
        ELSE \* the first pattern that matches, then break
             <<error(i, "Etiqueta inválida",
                     <<"Se encontró coincidencia con patrón: ",
                       ETIQUETAS_INVALIDAS_PATRONES[SetMin(hits)].src>>)>>

detectar_etiquetas_invalidas(doc) ==
    Flatten([i \in DOMAIN doc |-> etiquetas_invalidas_para(i, doc[i])])

\* strip each match, keep the non-empty ones
RECURSIVE preguntas_limpias(_, _)
preguntas_limpias(i, matches) ==
    IF matches = <<>> THEN <<>>
    ELSE LET pregunta_limpia == strip(Head(matches))
         IN  (IF pregunta_limpia # <<>>
              THEN <<[linea |-> i, pregunta |-> pregunta_limpia]>> ELSE <<>>)
             \o preguntas_limpias(i, Tail(matches))

extraer_preguntas_docx(doc) ==
    Flatten([i \in DOMAIN doc |->
                preguntas_limpias(i, findall_pregunta(para_text(doc[i]), 1))])

RECURSIVE comparar_preguntas(_, _)
comparar_preguntas(preguntas_docx, ref) ==
    IF preguntas_docx = <<>> THEN <<>>
    ELSE LET q == Head(preguntas_docx)
         IN  (IF ~in_list(q.pregunta, ref)
              THEN <<error(q.linea, "Pregunta no coincide",
                           <<"'">> \o q.pregunta
                           \o <<"' no está en la matriz de referencia">>)>>
              ELSE <<>>)
             \o comparar_preguntas(Tail(preguntas_docx), ref)

fuente_incorrecta(run) ==
    LET fuente == run.font_name
    IN  fuente # {} /\ the(fuente) # <<>> /\ lower(the(fuente)) # <<"a", "r", "i", "a", "l">>

tamano_incorrecto(run) ==
    \* tam = size.pt if size else None;  if tam and tam != 12
    LET size == run.font_size
    IN  size # {} /\ the(size) # 0 /\ the(size) # 2 * 12

fuente_tamano_para(i, para) ==
    LET bad == {j \in DOMAIN para : fuente_incorrecta(para[j]) \/ tamano_incorrecto(para[j])}
    IN  IF bad = {} THEN <<>>
        ELSE \* the first offending run, then break
             LET run == para[SetMin(bad)]
             IN  IF fuente_incorrecta(run)
                 THEN <<error(i, "Fuente incorrecta",
                              <<"'">> \o the(run.font_name) \o <<"' en vez de Arial">>)>>
                 ELSE <<error(i, "Tamaño incorrecto",
                              str_pt(the(run.font_size)) \o <<"pt en vez de 12pt">>)>>

validar_fuente_tamano(doc) ==
    Flatten([i \in DOMAIN doc |-> fuente_tamano_para(i, doc[i])])

intervencion_vacia_para(i, para) ==
    IF match_intervencion_vacia(strip(para_text(para)))
    THEN <<error(i, "Intervención vacía tras etiqueta",
                 <<"Debe ir junto al texto, sin salto de línea">>)>>
    ELSE <<>>

validar_intervencion_vacia(doc) ==
    Flatten([i \in DOMAIN doc |-> intervencion_vacia_para(i, doc[i])])

----------------------------------------------------------------------------
(* analizar_un_docx *)

\* a faulty variant: resumen[tipo] = 1
resumen_incr_sin_sumar(resumen, tipo) ==
    IF \E n \in DOMAIN resumen : resumen[n].tipo = tipo
    THEN resumen
    ELSE Append(resumen, [tipo |-> tipo, count |-> 1])

\* resumen[tipo] = resumen.get(tipo, 0) + 1, the dict kept in insertion order
resumen_incr(resumen, tipo) ==
    IF \E n \in DOMAIN resumen : resumen[n].tipo = tipo
    THEN [n \in DOMAIN resumen |->
            IF resumen[n].tipo = tipo
            THEN [resumen[n] EXCEPT !.count = @ + 1] ELSE resumen[n]]
    ELSE Append(resumen, [tipo |-> tipo, count |-> 0 + 1])

RECURSIVE resumen_loop(_, _)
resumen_loop(errores_list, resumen) ==
    IF errores_list = <<>> THEN resumen
    ELSE resumen_loop(Tail(errores_list), resumen_incr(resumen, Head(errores_list).tipo_error))

\* a faulty variant: interviewer-bold runs before label-validity
errores_de_otro_orden(doc, ref) ==
    comparar_preguntas(extraer_preguntas_docx(doc), ref)
    \o validar_negrita_entrevistador(doc)
    \o validar_etiquetas_docx(doc)
    \o validar_fuente_tamano(doc)
    \o validar_intervencion_vacia(doc)
    \o detectar_etiquetas_invalidas(doc)

\* the six validators, joined in the order of the code
errores_de(doc, ref) ==
    comparar_preguntas(extraer_preguntas_docx(doc), ref)
    \o validar_etiquetas_docx(doc)
    \o validar_negrita_entrevistador(doc)
    \o validar_fuente_tamano(doc)
    \o validar_intervencion_vacia(doc)
    \o detectar_etiquetas_invalidas(doc)

\* analizar_un_docx for bytes that parse into doc
analizar_un_docx(nombre, doc, ref) ==
    LET errores_list == errores_de(doc, ref)
    IN  [archivo |-> nombre,
         resumen |-> resumen_loop(errores_list, <<>>),
         errores |-> errores_list]

----------------------------------------------------------------------------
(* os.path and the report files of /analyze-zip *)

\* os.path.basename(p)
basename(p) ==
    LET seps == {i \in DOMAIN p : p[i] = "/"}
    IN  IF seps = {} THEN p ELSE SubSeq(p, SetMax(seps) + 1, Len(p))

\* os.path.splitext(p)[0]: cut at the last dot of the last component, unless
\* only dots precede it there
splitext_root(p) ==
    LET seps == {i \in DOMAIN p : p[i] = "/"}
        dots == {i \in DOMAIN p : p[i] = "."}
        sep == IF seps = {} THEN 0 ELSE SetMax(seps)
        dot == IF dots = {} THEN 0 ELSE SetMax(dots)
    IN  IF dot > sep /\ \E j \in (sep + 1)..(dot - 1) : p[j] # "."
        THEN SubSeq(p, 1, dot - 1) ELSE p

\* errores_txt.getvalue()
errores_txt(resultado) ==
    IF resultado.errores # <<>>
    THEN Flatten([n \in DOMAIN resultado.errores |->
            LET e == resultado.errores[n]
            IN  <<"Línea ">> \o str_nat(e.linea) \o <<": ", e.tipo_error, " - ">>
                \o e.descripcion \o <<"\n">>])
    ELSE <<"Sin errores detectados.\n">>

\* resumen_txt.getvalue()
resumen_txt(resultado) ==
    IF resultado.resumen # <<>>
    THEN Flatten([n \in DOMAIN resultado.resumen |->
            <<resultado.resumen[n].tipo, ": ">> \o str_nat(resultado.resumen[n].count)
            \o <<" ocurrencias\n">>])
    ELSE <<"Sin errores que resumir.\n">>

\* the two zipf.writestr calls for one document
reportes(filename, resultado) ==
    LET base == splitext_root(basename(filename))
    IN  << [name |-> base \o <<"_", "e", "r", "r", "o", "r", "e", "s", ".", "t", "x", "t">>,
            data |-> errores_txt(resultado)],
           [name |-> base \o <<"_", "r", "e", "s", "u", "m", "e", "n", ".", "t", "x", "t">>,
            data |-> resumen_txt(resultado)] >>

----------------------------------------------------------------------------
(* Utilidades *)

\* read_excel_questions: Optional list, {} when pandas raises (unreadable bytes,
\* no column C).  column_c holds the cells of column C below the header row,
\* each Optional (an empty cell is {}); dropna() drops the empty ones and the
\* cells kept here are text, which astype(str) leaves as it is.
RECURSIVE dropna(_)
dropna(cells) ==
    IF cells = <<>> THEN <<>>
    ELSE (IF Head(cells) = {} THEN <<>> ELSE <<the(Head(cells))>>) \o dropna(Tail(cells))

read_excel_questions(excel_bytes) ==
    IF excel_bytes.ok THEN {dropna(excel_bytes.column_c)} ELSE {}

\* [f for f in documentos if f.filename.lower().endswith(".docx")]
es_docx(f) == endswith(lower(f.filename), <<".", "d", "o", "c", "x">>)
filtrar_docx(files) == SelectSeq(files, es_docx)

\* a faulty variant: docx_files[-MAX_DOCX:]
truncar_ultimos(files) ==
    IF Len(files) > MAX_DOCX THEN SubSeq(files, Len(files) - MAX_DOCX + 1, Len(files)) ELSE files

\* docx_files[:MAX_DOCX] when there are more than MAX_DOCX
truncar(files) ==
    IF Len(files) > MAX_DOCX THEN SubSeq(files, 1, MAX_DOCX) ELSE files

es_xlsx(f) == endswith(lower(f.filename), <<".", "x", "l", "s", "x">>)

json_response(status, content) == [status |-> status, body |-> content]
\* an exception that leaves the handler: the framework answers 500
unhandled_exception == [status |-> 500, body |-> [error |-> "Internal Server Error"]]

----------------------------------------------------------------------------
(* Inputs *)

run(text, bold, font_name, font_size) ==
    [text |-> text, bold |-> bold, font_name |-> font_name, font_size |-> font_size]

ARIAL == {<<"A", "r", "i", "a", "l">>}

PARRAFOS == {
    <<run(<<"E", "N", "T", "R", "E", "V", "I", "S", "T", "A", "D", "O", ":">>, {}, ARIAL, {24})>>,
    <<run(<<"E", "N", "T", "R", "E", "V", "I", "S", "T", "A", "D", "O", "R", ":", " ", "H", "o", "l", "a">>, {TRUE}, ARIAL, {24})>>,
    <<run(<<"E", "N", "T", "R", "E", "V", "I", "S", "T", "A", "D", "O", "R", ":">>, {TRUE}, {}, {}),
      run(<<" ">>, {}, {}, {}),
      run(<<"H", "o", "l", "a">>, {FALSE}, {}, {})>>,
    <<run(<<"E", "N", "T", "R", "E", "V", "I", "S", "T", "A", "D", "O", "R", ":">>, {TRUE}, {}, {})>>,
    <<run(<<"E", "N", "T", "R", "E", "V", "I", "S", "T", "A", "D", "A", ":", " ", "B", "i", "e", "n">>, {}, {<<"a", "r", "i", "a", "l">>}, {})>>,
    <<run(<<"U", "S", "U", "A", "R", "I", "O", ":", " ", "a", "l", "g", "o">>, {}, {}, {})>>,
    <<run(<<"Eacute", "l", " ", "p", "r", "e", "g", "u", "n", "t", "oacute", ":", " ", "iquest", "C", "oacute", "m", "o", " ", "e", "s", "t", "aacute", "s", "?", " ", "B", "i", "e", "n", ".">>, {}, {}, {})>>,
    <<run(<<"iquest", "Q", "u", "eacute", " ", "h", "o", "r", "a", " ", "e", "s", "?">>, {}, ARIAL, {24})>>,
    <<run(<<"H", "o", "l", "a">>, {}, {<<"C", "a", "l", "i", "b", "r", "i">>}, {22})>>,
    <<run(<<"H", "o">>, {}, {<<>>}, {0}),
      run(<<"l", "a">>, {}, {<<"A", "R", "I", "A", "L">>}, {25}),
      run(<<".">>, {}, {<<"C", "a", "l", "i", "b", "r", "i">>}, {})>>,
    <<run(<<"E", "N", "T", "R", "E", "V", "I", "S", "T", "A", "D", "O", "R", ":", " ", "H", "o", "l", "a">>, {FALSE}, {}, {})>>,
    <<>>,
    <<run(<<" ", " ", "iquest", "A", "?", " ", "iquest", "B", "?", "\n", "iquest", "C">>, {}, {}, {})>>,
    <<run(<<"m", "o", "d", "e", "r", "a", "d", "o", "r", "a", ":", " ", "h", "o", "l", "a", " ", "s", "p", "e", "a", "k", "e", "r", "_", "1">>, {}, {}, {})>> }

\* the documents of at most MaxParas paragraphs
DOCS == UNION {[1..n -> PARRAFOS] : n \in 0..MaxParas}

CORRUPTO == [ok |-> FALSE, paragraphs |-> <<>>]
docx_de(doc) == [ok |-> TRUE, paragraphs |-> doc]

COLUMNAS == {
    <<{<<"iquest", "C", "oacute", "m", "o", " ", "e", "s", "t", "aacute", "s", "?">>}>>,
    <<{}, {<<"iquest", "Q", "u", "eacute", " ", "h", "o", "r", "a", " ", "e", "s", "?">>},
      {<<"iquest", "C", "oacute", "m", "o", " ", "e", "s", "t", "aacute", "s", "?">>}, {}>> }

xlsx_de(filename, ok, column_c) ==
    [filename |-> filename, content |-> [ok |-> ok, column_c |-> column_c]]

EXCELES == {
    xlsx_de(<<"p", ".", "x", "l", "s", "x">>, TRUE, <<{<<"iquest", "C", "oacute", "m", "o", " ", "e", "s", "t", "aacute", "s", "?">>}>>),
    xlsx_de(<<"p", ".", "X", "L", "S", "X">>, FALSE, <<>>),
    xlsx_de(<<"p", ".", "x", "l", "s">>, TRUE, <<{<<"iquest", "C", "oacute", "m", "o", " ", "e", "s", "t", "aacute", "s", "?">>}>>) }

\* <<API_TOKEN, x_token>>
TOKENS == { <<{}, {}>>, <<{"secreto"}, {"secreto"}>>, <<{"secreto"}, {"otro"}>>,
            <<{"secreto"}, {}>>, <<{}, {"otro"}>> }

\* most files in a batch sent with a token
MaxFilesToken == 2

\* the name of the k-th file of a batch: its own letter, then the extension
LETRAS == <<"a", "b", "c", "d", "e", "f", "g", "h", "i", "j", "k", "l", "m", "n", "o", "p">>
nombre_lote(k, es_documento) ==
    <<LETRAS[k]>> \o (IF es_documento
                      THEN (IF k % 3 = 0 THEN <<".", "D", "O", "C", "X">> ELSE <<".", "d", "o", "c", "x">>)
                      ELSE (IF k % 2 = 0 THEN <<".", "d", "o", "c">> ELSE <<".", "d", "o", "c", "x", ".", "t", "x", "t">>))

DOC_A == <<<<run(<<"H", "o", "l", "a">>, {}, ARIAL, {24})>>>>
DOC_B == <<<<run(<<"iquest", "A", "?">>, {}, {}, {})>>, <<run(<<"X", ":", " ">>, {}, {}, {})>>>>

\* a batch of n files: file `otro` (if any) is no .docx, file `malo` (if any) does not parse
lote(n, otro, malo) ==
    [k \in 1..n |->
        [filename |-> nombre_lote(k, k # otro),
         content |-> IF k = malo THEN CORRUPTO
                     ELSE docx_de(IF k % 2 = 0 THEN DOC_A ELSE DOC_B)]]

----------------------------------------------------------------------------
(* The state at the entry of a handler *)

Entrada ==
    /\ pc = "check_token"
    /\ docx_files = <<>>
    /\ preguntas_ref = <<>>
    /\ resultados = <<>>
    /\ zip_entries = <<>>
    /\ lecturas = <<>>
    /\ response = {}

\* /analyze requests carrying one document, of any content
Init ==
    /\ \E bytes \in {docx_de(doc) : doc \in DOCS} \cup {CORRUPTO} :
          documentos = << [filename |-> <<"1", ".", "d", "o", "c", "x">>, content |-> bytes] >>
    /\ \E col \in COLUMNAS :
          preguntas_excel = xlsx_de(<<"p", ".", "x", "l", "s", "x">>, TRUE, col)
    /\ x_token = {}
    /\ API_TOKEN = {}
    /\ endpoint = "analyze"
    /\ Entrada

\* requests carrying up to MaxFiles files: with no token configured, any
\* reference file; with tokens, up to MaxFilesToken files
InitLote ==
    /\ \E n \in 0..MaxFiles, otro \in 0..MaxFiles, malo \in 0..MaxFiles :
          /\ otro <= n
          /\ malo <= n
          /\ documentos = lote(n, otro, malo)
          /\ \/ /\ preguntas_excel \in EXCELES
                /\ API_TOKEN = {}
                /\ x_token = {}
             \/ /\ n <= MaxFilesToken
                /\ preguntas_excel \in EXCELES
                /\ \E t \in TOKENS : API_TOKEN = t[1] /\ x_token = t[2]
    /\ endpoint \in {"analyze", "analyze-zip"}
    /\ Entrada

----------------------------------------------------------------------------
(* The handlers analyze_endpoint and analyze_zip_endpoint, step by step.    *)
(* Both run the same steps up to the loop over docx_files.                  *)

\* check_token(x_token)
CheckToken ==
    /\ pc = "check_token"
    /\ IF API_TOKEN = {} \/ x_token = API_TOKEN
       THEN pc' = "filtrar" /\ UNCHANGED response
       ELSE /\ response' = {json_response(401, [detail |-> "Unauthorized"])}
            /\ pc' = "done"
    /\ UNCHANGED <<documentos, preguntas_excel, x_token, API_TOKEN, endpoint,
                   docx_files, preguntas_ref, resultados, zip_entries, lecturas>>

\* the .docx filter, the 400 when nothing is left, the cut to MAX_DOCX
FiltrarDocx ==
    /\ pc = "filtrar"
    /\ LET filtrados == filtrar_docx(documentos)
       IN  IF Len(filtrados) = 0
           THEN /\ docx_files' = filtrados
                /\ response' = {json_response(400,
                      [ok |-> FALSE, message |-> "Debes adjuntar al menos un .docx"])}
                /\ pc' = "done"
           ELSE /\ docx_files' = truncar(filtrados)
                /\ pc' = "check_xlsx"
                /\ UNCHANGED response
    /\ UNCHANGED <<documentos, preguntas_excel, x_token, API_TOKEN, endpoint,
                   preguntas_ref, resultados, zip_entries, lecturas>>

\* a faulty variant: the name of the reference file is not looked at
CheckXlsx_sin_rechazo ==
    /\ pc = "check_xlsx"
    /\ pc' = "read_excel"
    /\ UNCHANGED <<documentos, preguntas_excel, x_token, API_TOKEN, endpoint, docx_files,
                   preguntas_ref, resultados, zip_entries, lecturas, response>>

\* the 400 when the reference file is no .xlsx
CheckXlsx ==
    /\ pc = "check_xlsx"
    /\ IF ~es_xlsx(preguntas_excel)
       THEN /\ response' = {json_response(400,
                  [ok |-> FALSE, message |-> "Debes adjuntar un .xlsx de preguntas"])}
            /\ pc' = "done"
       ELSE pc' = "read_excel" /\ UNCHANGED response
    /\ UNCHANGED <<documentos, preguntas_excel, x_token, API_TOKEN, endpoint,
                   docx_files, preguntas_ref, resultados, zip_entries, lecturas>>

\* preguntas_ref = read_excel_questions(await preguntas_excel.read())
ReadExcel ==
    /\ pc = "read_excel"
    /\ lecturas' = Append(lecturas, [de |-> "xlsx", filename |-> preguntas_excel.filename])
    /\ LET leido == read_excel_questions(preguntas_excel.content)
       IN  IF leido = {}
           THEN /\ response' = {unhandled_exception}
                /\ pc' = "done"
                /\ UNCHANGED preguntas_ref
           ELSE /\ preguntas_ref' = the(leido)
                /\ pc' = "loop"
                /\ UNCHANGED response
    /\ UNCHANGED <<documentos, preguntas_excel, x_token, API_TOKEN, endpoint,
                   docx_files, resultados, zip_entries>>

\* how many documents the loop has been through
hechos == IF endpoint = "analyze" THEN Len(resultados) ELSE Len(zip_entries) \div 2

\* a faulty variant: a document that does not parse ends the loop, and what
\* was collected so far is returned
AnalizarDocumento_parcial ==
    /\ pc = "loop"
    /\ hechos < Len(docx_files)
    /\ LET f == docx_files[hechos + 1]
           doc == doc_from_bytes(f.content)
       IN  /\ lecturas' = Append(lecturas, [de |-> "docx", filename |-> f.filename])
           /\ IF doc = {}
              THEN /\ response' =
                        IF endpoint = "analyze"
                        THEN {json_response(200, [ok |-> TRUE,
                                                  total_archivos |-> Len(resultados),
                                                  resultados |-> resultados])}
                        ELSE {[status |-> 200,
                               body |-> [media_type |-> "application/zip",
                                         zip |-> zip_entries]]}
                   /\ pc' = "done"
                   /\ UNCHANGED <<resultados, zip_entries>>
              ELSE LET resultado == analizar_un_docx(f.filename, the(doc), preguntas_ref)
                   IN  /\ IF endpoint = "analyze"
                          THEN /\ resultados' = Append(resultados, resultado)
                               /\ UNCHANGED zip_entries
                          ELSE /\ zip_entries' = zip_entries \o reportes(f.filename, resultado)
                               /\ UNCHANGED resultados
                       /\ UNCHANGED <<pc, response>>
    /\ UNCHANGED <<documentos, preguntas_excel, x_token, API_TOKEN, endpoint,
                   docx_files, preguntas_ref>>

\* one turn of the loop: read the next document, analyse it, keep the result
\* (/analyze) or write its two reports into the archive (/analyze-zip)
AnalizarDocumento ==
    /\ pc = "loop"
    /\ hechos < Len(docx_files)
    /\ LET f == docx_files[hechos + 1]
           doc == doc_from_bytes(f.content)
       IN  /\ lecturas' = Append(lecturas, [de |-> "docx", filename |-> f.filename])
           /\ IF doc = {}
              THEN /\ response' = {unhandled_exception}
                   /\ pc' = "done"
                   /\ UNCHANGED <<resultados, zip_entries>>
              ELSE LET resultado == analizar_un_docx(f.filename, the(doc), preguntas_ref)
                   IN  /\ IF endpoint = "analyze"
                          THEN /\ resultados' = Append(resultados, resultado)
                               /\ UNCHANGED zip_entries
                          ELSE /\ zip_entries' = zip_entries \o reportes(f.filename, resultado)
                               /\ UNCHANGED resultados
                       /\ UNCHANGED <<pc, response>>
    /\ UNCHANGED <<documentos, preguntas_excel, x_token, API_TOKEN, endpoint,
                   docx_files, preguntas_ref>>

\* after the loop: the AnalyzeResponse, or the archive
Responder ==
    /\ pc = "loop"
    /\ hechos = Len(docx_files)
    /\ response' =
          IF endpoint = "analyze"
          THEN {json_response(200, [ok |-> TRUE, total_archivos |-> Len(resultados),
                                    resultados |-> resultados])}
          ELSE {[status |-> 200,
                 body |-> [media_type |-> "application/zip", zip |-> zip_entries]]}
    /\ pc' = "done"
    /\ UNCHANGED <<documentos, preguntas_excel, x_token, API_TOKEN, endpoint,
                   docx_files, preguntas_ref, resultados, zip_entries, lecturas>>

Next ==
    \/ CheckToken
    \/ FiltrarDocx
    \/ CheckXlsx
    \/ ReadExcel
    \/ AnalizarDocumento
    \/ Responder

Spec == Init /\ [][Next]_vars
SpecLote == InitLote /\ [][Next]_vars

----------------------------------------------------------------------------
(* Properties.  Under Spec a request carries one document, of any content   *)
(* up to MaxParas paragraphs; under SpecLote it carries up to MaxFiles      *)
(* files.  /analyze keeps each result in resultados, result n being that of *)
(* docx_files[n].                                                           *)

doc_de(n) == docx_files[n].content.paragraphs

\* the validator an error record comes from, 1 to 6 in the order of section
\* 4.5, told by its kind and, for "Etiqueta inválida", by how its description starts
Validador(e) ==
    CASE e.tipo_error = "Pregunta no coincide" -> 1
      [] e.tipo_error = "Etiqueta inválida" /\ e.descripcion[1] = "Etiqueta '" -> 2
      [] e.tipo_error = "Encabezado sin negrita" -> 2
      [] e.tipo_error = "Formato en negrita" -> 3
      [] e.tipo_error \in {"Fuente incorrecta", "Tamaño incorrecto"} -> 4
      [] e.tipo_error = "Intervención vacía tras etiqueta" -> 5
      [] OTHER -> 6

\* the positions in errores of the errors of paragraph i from the validators vs
DeParrafo(errores, i, vs) ==
    {j \in DOMAIN errores : errores[j].linea = i /\ Validador(errores[j]) \in vs}

Cuenta(errores, tipo) ==
    Cardinality({j \in DOMAIN errores : errores[j].tipo_error = tipo})

Autorizado == API_TOKEN = {} \/ x_token = API_TOKEN
Aceptados == SelectSeq(documentos, es_docx)
Menor(a, b) == IF a < b THEN a ELSE b

\* C1: in every result of analizar_un_docx, resumen has exactly one entry for
\* each tipo_error occurring in errores and none other, and the entry's count
\* is the number of errors of that kind (so it is never 0, and resumen is
\* empty exactly when errores is).
C1_ResumenCuentaErrores ==
    \A n \in DOMAIN resultados :
        LET r == resultados[n]
        IN  /\ {r.resumen[j].tipo : j \in DOMAIN r.resumen}
                 = {r.errores[j].tipo_error : j \in DOMAIN r.errores}
            /\ \A i, j \in DOMAIN r.resumen :
                 r.resumen[i].tipo = r.resumen[j].tipo => i = j
            /\ \A j \in DOMAIN r.resumen :
                 /\ r.resumen[j].count = Cuenta(r.errores, r.resumen[j].tipo)
                 /\ r.resumen[j].count > 0
            /\ (r.resumen = <<>>) <=> (r.errores = <<>>)

\* a result with several kinds of error, one of them more than once
C1_Witness ==
    \E n \in DOMAIN resultados :
        /\ Len(resultados[n].resumen) >= 2
        /\ \E j \in DOMAIN resultados[n].resumen : resultados[n].resumen[j].count >= 2

\* C2: a paragraph whose text is exactly "ENTREVISTADO:" gets exactly one
\* error in the full analysis, of kind "Intervención vacía tras etiqueta".
C2_SoloIntervencionVacia ==
    \A n \in DOMAIN resultados : \A i \in DOMAIN doc_de(n) :
        para_text(doc_de(n)[i]) = <<"E", "N", "T", "R", "E", "V", "I", "S", "T", "A", "D", "O", ":">>
        => LET suyos == DeParrafo(resultados[n].errores, i, 1..6)
           IN  /\ Cardinality(suyos) = 1
               /\ \A j \in suyos :
                    resultados[n].errores[j].tipo_error = "Intervención vacía tras etiqueta"

\* C3: with the reference list ["¿Cómo estás?"], the paragraph
\* "Él preguntó: ¿Cómo estás? Bien." gets no "Pregunta no coincide" error and
\* the paragraph "¿Qué hora es?" gets exactly one, quoting that text; and in
\* general a paragraph gets one such error for each extracted fragment that is
\* not in the reference list, and no other.
C3_PreguntaExtraidaYComparada ==
    \A n \in DOMAIN resultados : \A i \in DOMAIN doc_de(n) :
        LET texto == para_text(doc_de(n)[i])
            suyos == DeParrafo(resultados[n].errores, i, {1})
            fragmentos == preguntas_limpias(i, findall_pregunta(texto, 1))
        IN  /\ (/\ preguntas_ref = <<<<"iquest", "C", "oacute", "m", "o", " ", "e", "s", "t", "aacute", "s", "?">>>>
                /\ texto = <<"Eacute", "l", " ", "p", "r", "e", "g", "u", "n", "t", "oacute", ":", " ", "iquest", "C", "oacute", "m", "o", " ", "e", "s", "t", "aacute", "s", "?", " ", "B", "i", "e", "n", ".">>)
               => suyos = {}
            /\ (/\ preguntas_ref = <<<<"iquest", "C", "oacute", "m", "o", " ", "e", "s", "t", "aacute", "s", "?">>>>
                /\ texto = <<"iquest", "Q", "u", "eacute", " ", "h", "o", "r", "a", " ", "e", "s", "?">>)
               => /\ Cardinality(suyos) = 1
                  /\ \A j \in suyos :
                       resultados[n].errores[j].descripcion =
                           <<"'">> \o texto \o <<"' no está en la matriz de referencia">>
            /\ Cardinality(suyos) =
                 Cardinality({k \in DOMAIN fragmentos :
                                ~in_list(fragmentos[k].pregunta, preguntas_ref)})

\* C7: a paragraph "ENTREVISTADOR: Hola", all its runs bold and the label
\* inside a bold run, gets no error from label-validity and interviewer-bold;
\* with "Hola" in a run that is not bold and the label still inside a bold run
\* it gets exactly one from the two, of kind "Formato en negrita".  Every
\* paragraph gets at most one interviewer-bold error, and gets it exactly when
\* its trimmed text starts with "ENTREVISTADOR:" or "ENTREVISTADORA:" and some
\* run with non-blank text is not bold.
C7_NegritaEntrevistador ==
    \A n \in DOMAIN resultados : \A i \in DOMAIN doc_de(n) :
        LET para == doc_de(n)[i]
            errores == resultados[n].errores
            texto == strip(para_text(para))
            etiqueta_en_negrita ==
                \E j \in DOMAIN para :
                    para[j].bold = {TRUE} /\ contains(para[j].text, <<"E", "N", "T", "R", "E", "V", "I", "S", "T", "A", "D", "O", "R">>)
            es_hola == para_text(para) = <<"E", "N", "T", "R", "E", "V", "I", "S", "T", "A", "D", "O", "R", ":", " ", "H", "o", "l", "a">>
        IN  /\ (es_hola /\ etiqueta_en_negrita /\ \A j \in DOMAIN para : para[j].bold = {TRUE})
               => DeParrafo(errores, i, {2, 3}) = {}
            /\ (/\ es_hola /\ etiqueta_en_negrita
                /\ \E j \in DOMAIN para :
                     contains(para[j].text, <<"H", "o", "l", "a">>) /\ para[j].bold # {TRUE})
               => /\ Cardinality(DeParrafo(errores, i, {2, 3})) = 1
                  /\ \A j \in DeParrafo(errores, i, {2, 3}) :
                       errores[j].tipo_error = "Formato en negrita"
            /\ Cardinality(DeParrafo(errores, i, {3})) <= 1
            /\ (DeParrafo(errores, i, {3}) # {})
               <=> (/\ \/ startswith(texto, <<"E", "N", "T", "R", "E", "V", "I", "S", "T", "A", "D", "O", "R", ":">>)
                       \/ startswith(texto, <<"E", "N", "T", "R", "E", "V", "I", "S", "T", "A", "D", "O", "R", "A", ":">>)
                    /\ \E j \in DOMAIN para :
                         (\E c \in DOMAIN para[j].text : para[j].text[c] \notin WHITESPACE)
                         /\ para[j].bold # {TRUE})

\* both example paragraphs analysed: one all bold, one with "Hola" not bold
C7_Witness ==
    \E n \in DOMAIN resultados : \E i, k \in DOMAIN doc_de(n) :
        /\ para_text(doc_de(n)[i]) = <<"E", "N", "T", "R", "E", "V", "I", "S", "T", "A", "D", "O", "R", ":", " ", "H", "o", "l", "a">>
        /\ \A j \in DOMAIN doc_de(n)[i] : doc_de(n)[i][j].bold = {TRUE}
        /\ DeParrafo(resultados[n].errores, i, {2, 3}) = {}
        /\ para_text(doc_de(n)[k]) = <<"E", "N", "T", "R", "E", "V", "I", "S", "T", "A", "D", "O", "R", ":", " ", "H", "o", "l", "a">>
        /\ Cardinality(DeParrafo(resultados[n].errores, k, {3})) = 1
        /\ DeParrafo(resultados[n].errores, k, {2}) = {}

\* C9: a paragraph gets at most one empty-intervention error, and gets it
\* exactly when its trimmed text is one of the four speaker labels followed by
\* a colon and nothing else.
C9_IntervencionVaciaCuatroEtiquetas ==
    \A n \in DOMAIN resultados : \A i \in DOMAIN doc_de(n) :
        LET suyos == DeParrafo(resultados[n].errores, i, {5})
        IN  /\ Cardinality(suyos) <= 1
            /\ (suyos # {})
               <=> \E e \in DOMAIN ETIQUETAS_VALIDAS :
                      strip(para_text(doc_de(n)[i])) = ETIQUETAS_VALIDAS[e] \o <<":">>

\* what C6 calls a document with no formatting or label violation
SinViolaciones(doc) ==
    \A i \in DOMAIN doc :
        LET para == doc[i]
            texto == strip(para_text(para))
            inicio == {k \in 1..(Len(texto) - 1) :
                         (\A j \in 1..k : texto[j] \in AZ_UPPER) /\ texto[k + 1] = ":"}
        IN  /\ \A j \in DOMAIN para :
                 /\ para[j].font_name \in {{}, ARIAL}
                 /\ para[j].font_size \in {{}, {2 * 12}}
            /\ \A k \in inicio :
                 LET etiqueta == SubSeq(texto, 1, k)
                 IN  /\ \E e \in DOMAIN ETIQUETAS_VALIDAS : ETIQUETAS_VALIDAS[e] = etiqueta
                     /\ Len(texto) > k + 1
                     /\ etiqueta \in {<<"E", "N", "T", "R", "E", "V", "I", "S", "T", "A", "D", "O", "R">>,
                                      <<"E", "N", "T", "R", "E", "V", "I", "S", "T", "A", "D", "O", "R", "A">>}
                        => /\ \E j \in DOMAIN para :
                                para[j].bold = {TRUE} /\ contains(para[j].text, etiqueta)
                           /\ \A j \in DOMAIN para :
                                (\E c \in DOMAIN para[j].text : para[j].text[c] \notin WHITESPACE)
                                => para[j].bold = {TRUE}
            \* none of the forbidden patterns occurs as it is written
            /\ \A p \in DOMAIN ETIQUETAS_INVALIDAS_PATRONES :
                 ~re_search(ETIQUETAS_INVALIDAS_PATRONES[p], texto, FALSE)

\* C6: a document with no formatting or label violation, whose extracted
\* questions are all in the reference list, gets an empty errores list and an
\* empty resumen.
C6_DocumentoLimpioSinErrores ==
    \A n \in DOMAIN resultados :
        LET preguntas == extraer_preguntas_docx(doc_de(n))
        IN  (/\ SinViolaciones(doc_de(n))
             /\ \A q \in DOMAIN preguntas : in_list(preguntas[q].pregunta, preguntas_ref))
            => resultados[n].errores = <<>> /\ resultados[n].resumen = <<>>

\* C10: in every result the errors come validator by validator, in the order
\* question-match, label-validity, interviewer-bold, font/size,
\* empty-intervention, invalid-label-pattern; each validator's errors are its
\* output on the document, their lines never decreasing; and every line is the
\* index of a paragraph of the document.
C10_OrdenDeValidadores ==
    \A n \in DOMAIN resultados :
        LET errores == resultados[n].errores
            doc == doc_de(n)
            De(v) == SelectSeq(errores, LAMBDA e : Validador(e) = v)
        IN  /\ \A j \in DOMAIN errores : errores[j].linea \in 1..Len(doc)
            /\ \A j, k \in DOMAIN errores :
                 j < k => /\ Validador(errores[j]) <= Validador(errores[k])
                          /\ Validador(errores[j]) = Validador(errores[k])
                             => errores[j].linea <= errores[k].linea
            /\ De(1) = comparar_preguntas(extraer_preguntas_docx(doc), preguntas_ref)
            /\ De(2) = validar_etiquetas_docx(doc)
            /\ De(3) = validar_negrita_entrevistador(doc)
            /\ De(4) = validar_fuente_tamano(doc)
            /\ De(5) = validar_intervencion_vacia(doc)
            /\ De(6) = detectar_etiquetas_invalidas(doc)

\* a result with errors of three validators or more, one validator with errors
\* on two paragraphs
C10_Witness ==
    \E n \in DOMAIN resultados :
        LET errores == resultados[n].errores
        IN  /\ Cardinality({Validador(errores[j]) : j \in DOMAIN errores}) >= 3
            /\ \E j, k \in DOMAIN errores :
                 /\ Validador(errores[j]) = Validador(errores[k])
                 /\ errores[j].linea < errores[k].linea

----------------------------------------------------------------------------
(* The batch, under SpecLote *)

\* C4: when n >= 1 uploaded files are named .docx (in any case), the reference
\* is a readable .xlsx and those documents all parse, the batch ends with
\* min(n, 10) results, the i-th being that of the i-th .docx file uploaded
\* (/analyze-zip: with the two reports of each of them, in that order).
C4_LoteTruncado ==
    (/\ pc = "done" /\ Autorizado
     /\ Len(Aceptados) >= 1
     /\ es_xlsx(preguntas_excel) /\ preguntas_excel.content.ok
     /\ \A k \in DOMAIN Aceptados : Aceptados[k].content.ok)
    => LET m == Menor(Len(Aceptados), 10)
       IN  /\ response # {}
           /\ the(response).status = 200
           /\ IF endpoint = "analyze"
              THEN LET body == the(response).body
                   IN  /\ body.ok
                       /\ body.total_archivos = m
                       /\ Len(body.resultados) = m
                       /\ \A i \in 1..m : body.resultados[i].archivo = Aceptados[i].filename
              ELSE LET zip == the(response).body.zip
                       base(i) == SubSeq(Aceptados[i].filename, 1, 1)
                   IN  /\ Len(zip) = 2 * m
                       /\ \A i \in 1..m :
                            /\ zip[2 * i - 1].name = base(i) \o <<"_", "e", "r", "r", "o", "r", "e", "s", ".", "t", "x", "t">>
                            /\ zip[2 * i].name = base(i) \o <<"_", "r", "e", "s", "u", "m", "e", "n", ".", "t", "x", "t">>

\* twelve documents uploaded, ten results returned
C4_Witness ==
    /\ pc = "done"
    /\ Len(Aceptados) = 12
    /\ Len(documentos) > 12
    /\ endpoint = "analyze"
    /\ response # {}
    /\ the(response).status = 200
    /\ the(response).body.total_archivos = 10

\* C5: with no .docx file among the uploads the batch ends with the 400 "no
\* .docx" answer, and with a reference file not named .xlsx with the 400 "no
\* .xlsx" answer; in both cases nothing is ever read from the uploads and no
\* document is analysed.
C5_RechazoAntesDeLeer ==
    /\ (Aceptados = <<>> \/ ~es_xlsx(preguntas_excel))
       => lecturas = <<>> /\ resultados = <<>> /\ zip_entries = <<>>
    /\ (pc = "done" /\ Autorizado /\ Aceptados = <<>>)
       => response = {json_response(400,
              [ok |-> FALSE, message |-> "Debes adjuntar al menos un .docx"])}
    /\ (pc = "done" /\ Autorizado /\ Aceptados # <<>> /\ ~es_xlsx(preguntas_excel))
       => response = {json_response(400,
              [ok |-> FALSE, message |-> "Debes adjuntar un .xlsx de preguntas"])}

\* files uploaded, none of them a .docx: rejected, nothing read
C5_Witness ==
    /\ pc = "done"
    /\ documentos # <<>>
    /\ Aceptados = <<>>
    /\ response # {}
    /\ the(response).status = 400
    /\ lecturas = <<>>

\* C8: the reference file is read at most once and before any document; when
\* it cannot be read the batch ends with the error and no document is read or
\* analysed; when the k-th accepted document does not parse, the documents
\* after it are never read, and the batch ends with the error, returning
\* neither results nor an archive.
C8_ReferenciaPrimeroYFalloFatal ==
    LET docs == SubSeq(Aceptados, 1, Menor(Len(Aceptados), 10))
        malos == {k \in DOMAIN docs : ~docs[k].content.ok}
        leidos_docx == {j \in DOMAIN lecturas : lecturas[j].de = "docx"}
        leidos_xlsx == {j \in DOMAIN lecturas : lecturas[j].de = "xlsx"}
        completo == pc = "done" /\ Autorizado /\ docs # <<>> /\ es_xlsx(preguntas_excel)
        sin_resultado ==
            /\ response # {}
            /\ the(response).status = 500
            /\ DOMAIN the(response).body \cap {"resultados", "zip"} = {}
    IN  /\ leidos_xlsx \subseteq {1}
        /\ (leidos_docx # {} \/ resultados # <<>> \/ zip_entries # <<>>)
           => leidos_xlsx = {1} /\ preguntas_excel.content.ok
        /\ (completo /\ ~preguntas_excel.content.ok)
           => sin_resultado /\ leidos_xlsx = {1} /\ leidos_docx = {}
        /\ malos # {}
           => LET k == SetMin(malos)
              IN  /\ Cardinality(leidos_docx) <= k
                  /\ Len(resultados) <= k - 1
                  /\ Len(zip_entries) <= 2 * (k - 1)
                  /\ (completo /\ preguntas_excel.content.ok)
                     => sin_resultado /\ Cardinality(leidos_docx) = k

\* the third document does not parse: four reads, then the error
C8_Witness ==
    /\ pc = "done"
    /\ Len(Aceptados) >= 5
    /\ ~Aceptados[3].content.ok
    /\ Len(lecturas) = 4
    /\ response = {unhandled_exception}

====
